---- MODULE Spec2Model ----
(***************************************************************************)
(* The browser-side upload client of social-media-automation: the          *)
(* single-flight upload gate (uploadFile), the server-push progress        *)
(* handlers (eventSource.onmessage / onerror), the card renderer           *)
(* (initializePlatformCards / updateProgress) and the drag/drop and        *)
(* file-picker adapters (initializeDragAndDrop).                           *)
(*                                                                         *)
(* Execution is single-threaded: every action below is one run of one      *)
(* event-loop task (a DOM event listener, the continuation of the awaited  *)
(* fetch, or an EventSource handler).                                      *)
(***************************************************************************)
EXTENDS Integers, Sequences, FiniteSets, TLC

(***************************************************************************)
(* Bounds of the model.                                                    *)
(***************************************************************************)
\* the largest number of keys of one progress message
MaxBatch == 2
\* the largest number of accepted uploadFile calls (sessions) of one run
MaxSessions == 2

(***************************************************************************)
(* JavaScript values.                                                      *)
(***************************************************************************)
Undefined == "undefined"
Null == "null"

(***************************************************************************)
(* The platform registry.                                                  *)
(***************************************************************************)
platforms ==
    << [id |-> "youtube-personal",   name |-> "YouTube Personal",   icon |-> "fab fa-youtube"],
       [id |-> "youtube-charity",    name |-> "YouTube Charity",    icon |-> "fab fa-youtube"],
       [id |-> "instagram-personal", name |-> "Instagram Personal", icon |-> "fab fa-instagram"],
       [id |-> "instagram-charity",  name |-> "Instagram Charity",  icon |-> "fab fa-instagram"],
       [id |-> "tiktok-personal",    name |-> "TikTok Personal",    icon |-> "fab fa-tiktok"],
       [id |-> "tiktok-charity",     name |-> "TikTok Charity",     icon |-> "fab fa-tiktok"] >>

PlatformIds == {platforms[i].id : i \in DOMAIN platforms}

(***************************************************************************)
(* The DOM: the platform cards, keyed by element id.  A card keeps what    *)
(* the code reads and writes of it: its class list, the width of           *)
(* .progress-bar-fill, the text of .status-text, and the display and href  *)
(* of .error-link.                                                         *)
(***************************************************************************)
cardId(platformId) == platformId \o "-card"

newCard(platform) ==
    [ id          |-> cardId(platform.id),
      classList   |-> {"platform-card"},
      width       |-> "",
      statusText  |-> "Ready",
      display     |-> "none",
      href        |-> "#" ]

\* the grid after platforms.forEach(...) appended one card per registry entry
initializePlatformCards ==
    [ eid \in {cardId(platforms[i].id) : i \in DOMAIN platforms} |->
        newCard(platforms[CHOOSE i \in DOMAIN platforms : cardId(platforms[i].id) = eid]) ]

\* document.getElementById: <<element>>, or <<>> for null
getElementById(dom, eid) == IF eid \in DOMAIN dom THEN <<dom[eid]>> ELSE <<>>

percentText(progress) == ToString(progress) \o "%"

(***************************************************************************)
(* updateProgress(platformId, progress, status = 'uploading', error = null)*)
(* on the DOM dom.  The result is the DOM afterwards and whether the call  *)
(* threw: card.querySelector on a null card is a TypeError, raised before  *)
(* anything is written.                                                    *)
(***************************************************************************)
\* updateProgress whose error branch leaves the error link as it is
updateProgress_noLink(dom, platformId, progress, statusArg, errorArg) ==
    LET status == IF statusArg = Undefined THEN "uploading" ELSE statusArg
        eid    == cardId(platformId)
        found  == getElementById(dom, eid)
    IN  IF found = <<>>
        THEN [dom |-> dom, threw |-> TRUE]
        ELSE LET card == found[1]
                 c1 == [card EXCEPT !.width = percentText(progress)]
                 c2 == IF status = "error"
                       THEN [c1 EXCEPT !.classList = @ \cup {"error"},
                                       !.statusText = "Failed"]
                       ELSE IF status = "success"
                       THEN [c1 EXCEPT !.classList = @ \cup {"success"},
                                       !.statusText = "Complete"]
                       ELSE [c1 EXCEPT !.statusText = percentText(progress)]
             IN  [dom |-> [dom EXCEPT ![eid] = c2], threw |-> FALSE]

\* updateProgress that toggles the status class instead of adding it
updateProgress_toggle(dom, platformId, progress, statusArg, errorArg) ==
    LET status == IF statusArg = Undefined THEN "uploading" ELSE statusArg
        eid    == cardId(platformId)
        found  == getElementById(dom, eid)
        toggle(classList, token) == IF token \in classList
                                    THEN classList \ {token}
                                    ELSE classList \cup {token}
    IN  IF found = <<>>
        THEN [dom |-> dom, threw |-> TRUE]
        ELSE LET card == found[1]
                 c1 == [card EXCEPT !.width = percentText(progress)]
                 c2 == IF status = "error"
                       THEN [c1 EXCEPT !.classList = toggle(@, "error"),
                                       !.statusText = "Failed",
                                       !.display = "block",
                                       !.href = "/platform/" \o platformId]
                       ELSE IF status = "success"
                       THEN [c1 EXCEPT !.classList = toggle(@, "success"),
                                       !.statusText = "Complete"]
                       ELSE [c1 EXCEPT !.statusText = percentText(progress)]
             IN  [dom |-> [dom EXCEPT ![eid] = c2], threw |-> FALSE]

\* updateProgress that sets the width of every progress bar of the page
updateProgress_allBars(dom, platformId, progress, statusArg, errorArg) ==
    LET status == IF statusArg = Undefined THEN "uploading" ELSE statusArg
        eid    == cardId(platformId)
        found  == getElementById(dom, eid)
        bars   == [e \in DOMAIN dom |-> [dom[e] EXCEPT !.width = percentText(progress)]]
    IN  IF found = <<>>
        THEN [dom |-> dom, threw |-> TRUE]
        ELSE LET c1 == bars[eid]
                 c2 == IF status = "error"
                       THEN [c1 EXCEPT !.classList = @ \cup {"error"},
                                       !.statusText = "Failed",
                                       !.display = "block",
                                       !.href = "/platform/" \o platformId]
                       ELSE IF status = "success"
                       THEN [c1 EXCEPT !.classList = @ \cup {"success"},
                                       !.statusText = "Complete"]
                       ELSE [c1 EXCEPT !.statusText = percentText(progress)]
             IN  [dom |-> [bars EXCEPT ![eid] = c2], threw |-> FALSE]

updateProgress(dom, platformId, progress, statusArg, errorArg) ==
    LET status == IF statusArg = Undefined THEN "uploading" ELSE statusArg
        error  == IF errorArg = Undefined THEN Null ELSE errorArg
        eid    == cardId(platformId)
        found  == getElementById(dom, eid)
    IN  IF found = <<>>
        THEN [dom |-> dom, threw |-> TRUE]
        ELSE LET card == found[1]
                 c1 == [card EXCEPT !.width = percentText(progress)]
                 c2 == IF status = "error"
                       THEN [c1 EXCEPT !.classList = @ \cup {"error"},
                                       !.statusText = "Failed",
                                       !.display = "block",
                                       !.href = "/platform/" \o platformId]
                       ELSE IF status = "success"
                       THEN [c1 EXCEPT !.classList = @ \cup {"success"},
                                       !.statusText = "Complete"]
                       ELSE [c1 EXCEPT !.statusText = percentText(progress)]
             IN  [dom |-> [dom EXCEPT ![eid] = c2], threw |-> FALSE]

(***************************************************************************)
(* The messages of GET /progress.  event.data parses to a JSON object; its *)
(* entries are kept in Object.entries order (insertion order of the keys). *)
(* A value is a boolean (the complete sentinel) or an object               *)
(* {progress, status, error?}.                                             *)
(***************************************************************************)
\* the platform ids the server reports on in the model's runs
EmittedIds == {"youtube-personal", "tiktok-charity"}
\* an id with no entry in the registry
UnknownId == "facebook-personal"
ProgressValues == {30, 100}
Statuses == {"uploading", "success", "error"}

boolValue(b) == [kind |-> "boolean", b |-> b, progress |-> 0, status |-> Undefined, error |-> Undefined]
infoValue(p, st) ==
    [kind |-> "object", b |-> FALSE, progress |-> p, status |-> st,
     error |-> IF st = "error" THEN "quota exceeded" ELSE Undefined]

Entries ==
    {[key |-> k, val |-> infoValue(p, st)] : k \in EmittedIds, p \in ProgressValues, st \in Statuses}
    \cup {[key |-> "complete", val |-> boolValue(b)] : b \in BOOLEAN}
    \cup {[key |-> UnknownId, val |-> infoValue(30, "uploading")]}

distinctKeys(m) == \A i, j \in DOMAIN m : i # j => m[i].key # m[j].key

\* the messages of at most n keys
messagesUpTo(n) ==
    {m \in UNION {[1..k -> Entries] : k \in 0..n} : distinctKeys(m)}

Messages == messagesUpTo(MaxBatch)
\* the messages of at most one key: a progress report on one platform, the
\* complete sentinel alone, or the empty object
SingleMessages == messagesUpTo(1)

\* data.complete: the value of the key, undefined (falsy) when absent
dataComplete(data) == \E i \in DOMAIN data : data[i].key = "complete" /\ data[i].val.b

\* info.progress, info.status, info.error: undefined on a boolean
infoProgress(info) == IF info.kind = "object" THEN info.progress ELSE 0
infoStatus(info) == IF info.kind = "object" THEN info.status ELSE Undefined
infoError(info) == IF info.kind = "object" THEN info.error ELSE Undefined

\* a loop that catches the exception of a call and goes on with the next pair
RECURSIVE forEachEntry_goesOn(_, _, _)
forEachEntry_goesOn(data, i, acc) ==
    IF i > Len(data)
    THEN acc
    ELSE LET platformId == data[i].key
             info == data[i].val
             r == updateProgress(acc.dom, platformId, infoProgress(info),
                                 infoStatus(info), infoError(info))
         IN  forEachEntry_goesOn(data, i + 1,
                 [dom   |-> r.dom,
                  calls |-> IF r.threw THEN acc.calls
                            ELSE Append(acc.calls, [platformId |-> platformId, info |-> info]),
                  threw |-> acc.threw \/ r.threw])

(***************************************************************************)
(* Object.entries(data).forEach(([platformId, info]) => updateProgress(..))*)
(* from entry i on.  An exception thrown by the callback ends the loop.    *)
(* acc is the DOM so far, the calls of updateProgress that returned, and   *)
(* whether one threw.                                                      *)
(***************************************************************************)
RECURSIVE forEachEntry(_, _, _)
forEachEntry(data, i, acc) ==
    IF i > Len(data) \/ acc.threw
    THEN acc
    ELSE LET platformId == data[i].key
             info == data[i].val
             r == updateProgress(acc.dom, platformId, infoProgress(info),
                                 infoStatus(info), infoError(info))
         IN  forEachEntry(data, i + 1,
                 [dom   |-> r.dom,
                  calls |-> IF r.threw THEN acc.calls
                            ELSE Append(acc.calls, [platformId |-> platformId, info |-> info]),
                  threw |-> r.threw])

(***************************************************************************)
(* The files of a drop (e.dataTransfer.files) or of the picker             *)
(* (e.target.files): a FileList, possibly empty.                           *)
(***************************************************************************)
VideoFile == [name |-> "video.mp4", type |-> "video/mp4"]
ImageFile == [name |-> "photo.png", type |-> "image/png"]
FileLists == { <<>>, <<VideoFile>>, <<ImageFile>> }

\* String.prototype.startsWith
startsWith(str, prefix) ==
    Len(str) >= Len(prefix) /\ SubSeq(str, 1, Len(prefix)) = prefix

\* a filter that lets every chosen file through
isVideoFile_any(files) == Len(files) > 0

\* file && file.type.startsWith('video/'), file being files[0]
isVideoFile(files) == Len(files) > 0 /\ startsWith(files[1].type, "video/")

(***************************************************************************)
(* State.                                                                  *)
(*   uploadInProgress  the module variable                                 *)
(*   cards             the DOM (the platform cards by element id)          *)
(*   sessions          one record per uploadFile call that passed the      *)
(*                     gate: where that call is (pc), how many             *)
(*                     POST /upload requests it issued (requests), how     *)
(*                     many EventSource objects it created (sources), how  *)
(*                     its POST ended (response), and, while the POST is   *)
(*                     pending, the cards as they were when the call       *)
(*                     passed the gate (before)                            *)
(*   event             the message event an open EventSource has received  *)
(*                     and whose onmessage has not run yet: <<>> or        *)
(*                     <<[session, data]>>, data the parsed event.data     *)
(*   last              the step taken last: its kind (op), its session,    *)
(*                     the files of a gesture, whether the response was    *)
(*                     ok, and of a message whether it carried a true      *)
(*                     complete, the platform ids of the updateProgress    *)
(*                     calls that returned, and whether the handler threw  *)
(* pc of a session: "fetch" (awaiting the response of POST /upload),       *)
(* "open" (the EventSource is open, its handlers are set), "closed"        *)
(* (eventSource.close() was called), "failed" (the catch block ran).       *)
(***************************************************************************)
VARIABLES uploadInProgress, cards, sessions, event, last

vars == <<uploadInProgress, cards, sessions, event, last>>

NoTask ==
    [op |-> "load", session |-> 0, files |-> <<>>, ok |-> FALSE,
     complete |-> FALSE, calls |-> <<>>, threw |-> FALSE]

\* the page after DOMContentLoaded
Init ==
    /\ uploadInProgress = FALSE
    /\ cards = initializePlatformCards
    /\ sessions = <<>>
    /\ event = <<>>
    /\ last = NoTask

(***************************************************************************)
(* uploadFile(file), up to the await of fetch: the gate, and the request.  *)
(***************************************************************************)
\* uploadFile without the test of the flag
uploadFile_noGate(file) ==
    /\ uploadInProgress' = TRUE
    /\ sessions' = Append(sessions,
           [pc |-> "fetch", requests |-> 1, sources |-> 0,
            response |-> "pending", before |-> <<cards>>])

\* uploadFile that sends the request and leaves the flag for later
uploadFile_lateFlag(file) ==
    IF uploadInProgress
    THEN UNCHANGED <<uploadInProgress, sessions>>
    ELSE /\ UNCHANGED uploadInProgress
         /\ sessions' = Append(sessions,
                [pc |-> "fetch", requests |-> 1, sources |-> 0,
                 response |-> "pending", before |-> <<cards>>])

uploadFile(file) ==
    IF uploadInProgress
    THEN UNCHANGED <<uploadInProgress, sessions>>
    ELSE /\ uploadInProgress' = TRUE
         /\ sessions' = Append(sessions,
                [pc |-> "fetch", requests |-> 1, sources |-> 0,
                 response |-> "pending", before |-> <<cards>>])

\* the body of the 'drop' and of the 'change' listener
fileSelected(files) ==
    IF isVideoFile(files)
    THEN uploadFile(files[1])
    ELSE UNCHANGED <<uploadInProgress, sessions>>

\* the sessions of a run are bounded: a submit that would start one more is left out
withinBound(files) ==
    (isVideoFile(files) /\ ~uploadInProgress) => Len(sessions) < MaxSessions

\* dropZone's 'drop' listener
Drop(files) ==
    /\ withinBound(files)
    /\ fileSelected(files)
    /\ last' = [NoTask EXCEPT !.op = "drop", !.files = files]
    /\ UNCHANGED <<cards, event>>

\* fileInput's 'change' listener
Change(files) ==
    /\ withinBound(files)
    /\ fileSelected(files)
    /\ last' = [NoTask EXCEPT !.op = "change", !.files = files]
    /\ UNCHANGED <<cards, event>>

(***************************************************************************)
(* uploadFile after the await: the response arrived (ok or not), or fetch  *)
(* rejected (network error).                                               *)
(***************************************************************************)
\* catch (error) { console.error(...); uploadInProgress = false; }
\* a catch block that logs and leaves the flag set
catchBlock_keepFlag(s, how) ==
    /\ UNCHANGED uploadInProgress
    /\ sessions' = [sessions EXCEPT ![s].pc = "failed", ![s].response = how,
                                    ![s].before = <<>>]

catchBlock(s, how) ==
    /\ uploadInProgress' = FALSE
    /\ sessions' = [sessions EXCEPT ![s].pc = "failed", ![s].response = how,
                                    ![s].before = <<>>]

\* a try block that creates the EventSource before it tests response.ok
afterFetch_openFirst(s, ok) ==
    IF ~ok
    THEN /\ uploadInProgress' = FALSE
         /\ sessions' = [sessions EXCEPT ![s].pc = "failed", ![s].sources = @ + 1,
                                         ![s].response = "not-ok", ![s].before = <<>>]
    ELSE /\ sessions' = [sessions EXCEPT ![s].pc = "open", ![s].sources = @ + 1,
                                         ![s].response = "ok", ![s].before = <<>>]
         /\ UNCHANGED uploadInProgress

\* a try block that clears the flag as soon as the response arrived
afterFetch_finally(s, ok) ==
    IF ~ok
    THEN /\ uploadInProgress' = FALSE
         /\ sessions' = [sessions EXCEPT ![s].pc = "failed", ![s].response = "not-ok",
                                         ![s].before = <<>>]
    ELSE /\ sessions' = [sessions EXCEPT ![s].pc = "open", ![s].sources = @ + 1,
                                         ![s].response = "ok", ![s].before = <<>>]
         /\ uploadInProgress' = FALSE

\* the try block from the response on
afterFetch(s, ok) ==
    IF ~ok
    THEN catchBlock(s, "not-ok")
    ELSE /\ sessions' = [sessions EXCEPT ![s].pc = "open", ![s].sources = @ + 1,
                                         ![s].response = "ok", ![s].before = <<>>]
         /\ UNCHANGED uploadInProgress

FetchResponse(s, ok) ==
    /\ sessions[s].pc = "fetch"
    /\ afterFetch(s, ok)
    /\ last' = [NoTask EXCEPT !.op = "response", !.session = s, !.ok = ok]
    /\ UNCHANGED <<cards, event>>

FetchReject(s) ==
    /\ sessions[s].pc = "fetch"
    /\ catchBlock(s, "rejected")
    /\ last' = [NoTask EXCEPT !.op = "rejected", !.session = s]
    /\ UNCHANGED <<cards, event>>

(***************************************************************************)
(* A message arrives on the open EventSource of session s.  Messages are   *)
(* dispatched one at a time, in arrival order.                             *)
(***************************************************************************)
canReceive(s) == sessions[s].pc = "open" /\ event = <<>>

Receive(s, data) ==
    /\ canReceive(s)
    /\ event' = <<[session |-> s, data |-> data]>>
    /\ last' = [NoTask EXCEPT !.op = "receive", !.session = s]
    /\ UNCHANGED <<uploadInProgress, cards, sessions>>

(***************************************************************************)
(* eventSource.onmessage, given the parsed event.data: whether it closes   *)
(* the source and clears the flag, the DOM afterwards, and whether the     *)
(* handler ended by an exception.                                          *)
(***************************************************************************)
\* an onmessage that ends the session on complete only once no card shows a percentage
onmessage_waitsForAll(dom, data) ==
    IF dataComplete(data)
    THEN [close |-> \A eid \in DOMAIN dom : dom[eid].statusText \in {"Ready", "Complete", "Failed"},
          dom |-> dom, calls |-> <<>>, threw |-> FALSE]
    ELSE LET r == forEachEntry(data, 1, [dom |-> dom, calls |-> <<>>, threw |-> FALSE])
         IN  [close |-> FALSE, dom |-> r.dom, calls |-> r.calls, threw |-> r.threw]

\* an onmessage that ends the session when a pair reports an error
onmessage_closeOnError(dom, data) ==
    IF dataComplete(data)
    THEN [close |-> TRUE, dom |-> dom, calls |-> <<>>, threw |-> FALSE]
    ELSE LET r == forEachEntry(data, 1, [dom |-> dom, calls |-> <<>>, threw |-> FALSE])
         IN  [close |-> \E i \in DOMAIN data : data[i].val.status = "error",
              dom |-> r.dom, calls |-> r.calls, threw |-> r.threw]

\* an onmessage that ends the session once every card is marked success or error
onmessage_closeWhenAllTerminal(dom, data) ==
    IF dataComplete(data)
    THEN [close |-> TRUE, dom |-> dom, calls |-> <<>>, threw |-> FALSE]
    ELSE LET r == forEachEntry(data, 1, [dom |-> dom, calls |-> <<>>, threw |-> FALSE])
         IN  [close |-> \A eid \in DOMAIN r.dom :
                            r.dom[eid].classList \cap {"success", "error"} # {},
              dom |-> r.dom, calls |-> r.calls, threw |-> r.threw]

\* an onmessage that renders the cards anew when the session completes
onmessage_resetsOnComplete(dom, data) ==
    IF dataComplete(data)
    THEN [close |-> TRUE, dom |-> initializePlatformCards, calls |-> <<>>, threw |-> FALSE]
    ELSE LET r == forEachEntry(data, 1, [dom |-> dom, calls |-> <<>>, threw |-> FALSE])
         IN  [close |-> FALSE, dom |-> r.dom, calls |-> r.calls, threw |-> r.threw]

onmessage(dom, data) ==
    IF dataComplete(data)
    THEN [close |-> TRUE, dom |-> dom, calls |-> <<>>, threw |-> FALSE]
    ELSE LET r == forEachEntry(data, 1, [dom |-> dom, calls |-> <<>>, threw |-> FALSE])
         IN  [close |-> FALSE, dom |-> r.dom, calls |-> r.calls, threw |-> r.threw]

OnMessage(s) ==
    /\ event # <<>>
    /\ event[1].session = s
    /\ sessions[s].pc = "open"
    /\ LET r == onmessage(cards, event[1].data)
       IN  /\ cards' = r.dom
           /\ IF r.close
              THEN /\ sessions' = [sessions EXCEPT ![s].pc = "closed"]
                   /\ uploadInProgress' = FALSE
              ELSE UNCHANGED <<sessions, uploadInProgress>>
           /\ last' = [NoTask EXCEPT
                          !.op = "message", !.session = s,
                          !.complete = \E i \in DOMAIN event[1].data :
                                          /\ event[1].data[i].key = "complete"
                                          /\ event[1].data[i].val.b,
                          !.calls = [i \in DOMAIN r.calls |-> r.calls[i].platformId],
                          !.threw = r.threw]
    /\ event' = <<>>

(***************************************************************************)
(* eventSource.onerror of session s; the error follows the messages        *)
(* received before it.                                                     *)
(***************************************************************************)
\* an onerror that does not close the source, which then reconnects by itself
onerror_reconnect(s) ==
    /\ sessions' = [sessions EXCEPT ![s].sources = @ + 1]
    /\ UNCHANGED uploadInProgress

\* an onerror that clears the flag and leaves the EventSource open
onerror_noClose(s) ==
    /\ uploadInProgress' = FALSE
    /\ UNCHANGED sessions

onerror(s) ==
    /\ sessions' = [sessions EXCEPT ![s].pc = "closed"]
    /\ uploadInProgress' = FALSE

OnError(s) ==
    /\ sessions[s].pc = "open"
    /\ event = <<>>
    /\ onerror(s)
    /\ last' = [NoTask EXCEPT !.op = "error", !.session = s]
    /\ UNCHANGED <<cards, event>>

(***************************************************************************)
(* Spec: every gesture (drop or picker; no file, a video, an image), every *)
(* outcome of the POST, and messages of at most one key.                   *)
(***************************************************************************)
Next ==
    \/ \E files \in FileLists : Drop(files)
    \/ \E files \in FileLists : Change(files)
    \/ \E s \in DOMAIN sessions, ok \in BOOLEAN : FetchResponse(s, ok)
    \/ \E s \in DOMAIN sessions : FetchReject(s)
    \/ \E s \in DOMAIN sessions : canReceive(s) /\ \E data \in SingleMessages : Receive(s, data)
    \/ \E s \in DOMAIN sessions : OnMessage(s)
    \/ \E s \in DOMAIN sessions : OnError(s)

Spec == Init /\ [][Next]_vars

(***************************************************************************)
(* SpecBatches: the user drops videos, the POST succeeds, and the channel  *)
(* delivers every message of at most MaxBatch keys.                        *)
(***************************************************************************)
NextBatches ==
    \/ Drop(<<VideoFile>>)
    \/ \E s \in DOMAIN sessions : FetchResponse(s, TRUE)
    \/ \E s \in DOMAIN sessions : canReceive(s) /\ \E data \in Messages : Receive(s, data)
    \/ \E s \in DOMAIN sessions : OnMessage(s)
    \/ \E s \in DOMAIN sessions : OnError(s)

SpecBatches == Init /\ [][NextBatches]_vars

(***************************************************************************)
(* SpecVerdicts: one message per platform of the registry reports its      *)
(* verdict (youtube-personal may also fail), and the server may send       *)
(* complete.  The event loop runs the handler of a message that arrived,   *)
(* and the fetch promise settles; nothing makes the server send.           *)
(***************************************************************************)
VerdictMessages ==
    {<<[key |-> p, val |-> infoValue(100, "success")]>> : p \in PlatformIds}
    \cup {<<[key |-> "youtube-personal", val |-> infoValue(30, "error")]>>}
    \cup {<<[key |-> "complete", val |-> boolValue(TRUE)]>>}

NextVerdicts ==
    \/ Drop(<<VideoFile>>)
    \/ \E s \in DOMAIN sessions : FetchResponse(s, TRUE)
    \/ \E s \in DOMAIN sessions : canReceive(s) /\ \E data \in VerdictMessages : Receive(s, data)
    \/ \E s \in DOMAIN sessions : OnMessage(s)
    \/ \E s \in DOMAIN sessions : OnError(s)

SpecVerdicts ==
    /\ Init
    /\ [][NextVerdicts]_vars
    /\ WF_vars(\E s \in DOMAIN sessions : OnMessage(s))
    /\ WF_vars(\E s \in DOMAIN sessions : FetchResponse(s, TRUE))

(***************************************************************************)
(* Properties.                                                             *)
(***************************************************************************)
card(p) == cards[cardId(p)]

\* the step is a run of the drop or of the change listener
GestureStep == last'.op \in {"drop", "change"}
\* the listener's gesture carries a video file
VideoGesture == GestureStep /\ Len(last'.files) > 0 /\ last'.files[1].type \in {"video/mp4"}

RECURSIVE sumOver(_, _)
sumOver(ss, field) ==
    IF ss = <<>> THEN 0 ELSE ss[1][field] + sumOver(Tail(ss), field)
\* the POST /upload requests issued and the EventSource objects created so far
totalRequests(ss) == sumOver(ss, "requests")
totalSources(ss) == sumOver(ss, "sources")

\* C1: single-flight.  A gesture made while uploadInProgress is true (the POST
\* of the current session pending, or its channel open) issues no request,
\* opens no channel, queues nothing, and leaves the flag and every card as
\* they were: the step changes nothing but the record of the last step.
C1_SingleFlight ==
    [][(GestureStep /\ uploadInProgress)
         => /\ UNCHANGED <<uploadInProgress, cards, sessions, event>>
            /\ totalRequests(sessions') = totalRequests(sessions)
            /\ totalSources(sessions') = totalSources(sessions)]_vars

\* a video was submitted while the channel of the only session was open, and
\* a message of that session is still to be handled
C1_Witness ==
    /\ uploadInProgress
    /\ last.op \in {"drop", "change"}
    /\ isVideoFile(last.files)
    /\ Len(sessions) = 1
    /\ sessions[1].pc = "open"
    /\ event # <<>>

\* C2: an accepted submit (a video gesture while the flag is false) issues
\* exactly one POST /upload and starts one session; no other step issues a
\* request; a session has created exactly one EventSource if its POST succeeded
\* and none otherwise, so no session ever creates a second one.
C2_OneRequestOneChannel ==
    [][/\ (VideoGesture /\ ~uploadInProgress)
            => /\ Len(sessions') = Len(sessions) + 1
               /\ totalRequests(sessions') = totalRequests(sessions) + 1
       /\ ~(VideoGesture /\ ~uploadInProgress)
            => totalRequests(sessions') = totalRequests(sessions)
       /\ \A s \in DOMAIN sessions' :
            /\ sessions'[s].requests = 1
            /\ sessions'[s].sources = IF sessions'[s].response = "ok" THEN 1 ELSE 0]_vars

\* a session whose POST failed and opened no channel, then one whose POST
\* succeeded and whose one channel was closed
C2_Witness ==
    /\ Len(sessions) = 2
    /\ sessions[1].response = "not-ok" /\ sessions[1].sources = 0
    /\ sessions[2].response = "ok" /\ sessions[2].pc = "closed" /\ sessions[2].sources = 1

\* the step is the end of a POST by a response that is not ok or by a rejection
FailureStep ==
    \/ last'.op = "rejected"
    \/ last'.op = "response" /\ ~last'.ok

\* C4: when the POST of an accepted submit ends with a response that is not ok
\* or with a network error, the flag is reset, the session has no channel (and
\* never gets one), and every card is as it was when the submit passed the gate.
C4_SubmissionFailure ==
    [][/\ FailureStep
            => /\ uploadInProgress' = FALSE
               /\ sessions'[last'.session].pc = "failed"
               /\ sessions'[last'.session].sources = 0
               /\ totalSources(sessions') = totalSources(sessions)
               /\ event' = <<>>
               /\ <<cards'>> = sessions[last'.session].before
       /\ \A s \in DOMAIN sessions :
            sessions[s].pc = "failed" => sessions'[s] = sessions[s]]_vars

\* the POST of a second session failed after the first session changed a card
C4_Witness ==
    /\ last.op = "response" /\ ~last.ok
    /\ last.session = 2
    /\ sessions[2].pc = "failed"
    /\ ~uploadInProgress
    /\ card("youtube-personal").statusText = "Complete"

\* the step is a run of onmessage on the pending event
MessageStep == event # <<>> /\ last'.op = "message"
\* the parsed data of the pending event carries complete = true
carriesComplete(data) ==
    \E i \in DOMAIN data : data[i].key = "complete" /\ data[i].val = boolValue(TRUE)

\* C3: when a message with complete = true is handled, the channel is closed
\* and the flag is false after that same step, whatever the cards show; and a
\* video submitted next is accepted: it starts a session with one request.
C3_CompleteReleasesGate ==
    [][/\ (MessageStep /\ carriesComplete(event[1].data))
            => /\ sessions'[last'.session].pc = "closed"
               /\ uploadInProgress' = FALSE
               /\ event' = <<>>
       /\ (last.op = "message" /\ last.complete /\ VideoGesture)
            => /\ Len(sessions') = Len(sessions) + 1
               /\ sessions'[Len(sessions')].pc = "fetch"
               /\ sessions'[Len(sessions')].requests = 1
               /\ uploadInProgress' = TRUE]_vars

\* complete was handled while one card showed a percentage and another was
\* still Ready
C3_Witness ==
    /\ last.op = "message" /\ last.complete
    /\ sessions[last.session].pc = "closed"
    /\ ~uploadInProgress
    /\ card("youtube-personal").statusText = "30%"
    /\ card("tiktok-charity").statusText = "Ready"

\* the step is a run of onerror
ErrorStep == last'.op = "error"

\* C5: when the open channel reports an error, the channel is closed and the
\* flag is false after that same step, every card is as it was, no EventSource
\* is created, and a closed session never changes again (no reconnect).
C5_ChannelError ==
    [][/\ ErrorStep
            => /\ sessions'[last'.session].pc = "closed"
               /\ uploadInProgress' = FALSE
               /\ cards' = cards
               /\ totalSources(sessions') = totalSources(sessions)
       /\ \A s \in DOMAIN sessions :
            sessions[s].pc = "closed" => sessions'[s] = sessions[s]]_vars

\* the channel failed while a card showed a percentage: the card is not marked
C5_Witness ==
    /\ last.op = "error"
    /\ sessions[last.session].pc = "closed"
    /\ ~uploadInProgress
    /\ card("youtube-personal").statusText = "30%"
    /\ card("youtube-personal").classList = {"platform-card"}

\* the card was put in success or in error
terminal(c) == c.classList \cap {"success", "error"} # {}

\* C6: once a card is in success or in error, no later event changes its
\* status label or its success/error marking.
C6_TerminalAbsorbing ==
    [][\A p \in PlatformIds :
         terminal(cards[cardId(p)])
           => /\ cards'[cardId(p)].statusText = cards[cardId(p)].statusText
              /\ cards'[cardId(p)].classList = cards[cardId(p)].classList]_vars

\* C7: after a message is handled, the width of the progress bar of each
\* platform the message has a key for is that message's progress value (also
\* when it is lower than before), and the other platforms keep their width.
C7_LatestPercentShown ==
    [][MessageStep
         => \A p \in PlatformIds :
              IF \E i \in DOMAIN event[1].data : event[1].data[i].key = p
              THEN \A i \in DOMAIN event[1].data :
                     event[1].data[i].key = p
                       => cards'[cardId(p)].width
                            = ToString(event[1].data[i].val.progress) \o "%"
              ELSE cards'[cardId(p)].width = cards[cardId(p)].width]_vars

\* how many times x occurs in the sequence sq
occurrences(sq, x) == Cardinality({i \in DOMAIN sq : sq[i] = x})

\* C8: for every message handled, with or without a complete key,
\* updateProgress is applied exactly once for every platform the message has a
\* pair for.
C8_EveryPairApplied ==
    [][MessageStep
         => \A p \in PlatformIds :
              occurrences(last'.calls, p)
                = Cardinality({i \in DOMAIN event[1].data : event[1].data[i].key = p})]_vars

\* the label the claim gives to an update with this info
expectedLabel(info) ==
    IF info.status = "error" THEN "Failed"
    ELSE IF info.status = "success" THEN "Complete"
    ELSE ToString(info.progress) \o "%"

\* C9: after updateProgress ran for a pair of the handled message, the card's
\* label is "Failed" for status error (with the error link shown and pointing
\* to /platform/{platformId}), "Complete" for success and "{progress}%" for any
\* other status; and the error link of a card is hidden from the start until an
\* error pair of that platform is handled.
C9_StatusToDisplay ==
    /\ \A p \in PlatformIds : cards[cardId(p)].display = "none"
    /\ [][/\ MessageStep
               => \A i \in DOMAIN event[1].data :
                    occurrences(last'.calls, event[1].data[i].key) > 0
                      => LET p == event[1].data[i].key
                             info == event[1].data[i].val
                         IN  /\ cards'[cardId(p)].statusText = expectedLabel(info)
                             /\ info.status = "error"
                                  => /\ cards'[cardId(p)].display = "block"
                                     /\ cards'[cardId(p)].href = "/platform/" \o p
          /\ \A p \in PlatformIds :
               cards'[cardId(p)].display # "none"
                 => \/ cards[cardId(p)].display # "none"
                    \/ /\ MessageStep
                       /\ \E i \in DOMAIN event[1].data :
                            /\ event[1].data[i].key = p
                            /\ event[1].data[i].val.status = "error"]_vars

\* {"tiktok-charity": {progress: 30, status: "error"}} was handled
C9_Witness ==
    /\ last.op = "message" /\ last.calls = <<"tiktok-charity">>
    /\ card("tiktok-charity").statusText = "Failed"
    /\ card("tiktok-charity").width = "30%"
    /\ card("tiktok-charity").display = "block"
    /\ card("tiktok-charity").href = "/platform/tiktok-charity"
    /\ card("youtube-personal").statusText = "Complete"
    /\ card("youtube-personal").display = "none"

\* C10: once an error pair was handled for a platform, no later event changes
\* the width of that platform's progress bar.
C10_ErrorFreezesProgress ==
    [][\A p \in PlatformIds :
         "error" \in cards[cardId(p)].classList
           => cards'[cardId(p)].width = cards[cardId(p)].width]_vars


\* the keys of the message are all platform ids of the registry
registryKeys(data) == \A i \in DOMAIN data : data[i].key \in PlatformIds

\* C11: an error pair does not end the session.  A handled message without a
\* true complete leaves the channel open and the flag set, also when it marks a
\* platform as failed; and while some platform is marked failed, a message of
\* registry keys is applied to the card of every other platform it reports on.
C11_PlatformErrorKeepsSession ==
    [][/\ (MessageStep /\ ~carriesComplete(event[1].data))
            => /\ sessions'[last'.session].pc = "open"
               /\ sessions' = sessions
               /\ uploadInProgress /\ uploadInProgress'
       /\ (/\ MessageStep
           /\ ~carriesComplete(event[1].data)
           /\ registryKeys(event[1].data))
            => \A p \in PlatformIds :
                 "error" \in cards[cardId(p)].classList
                   => \A i \in DOMAIN event[1].data :
                        event[1].data[i].key # p
                          => LET q == event[1].data[i].key
                             IN  /\ cards'[cardId(q)].statusText
                                      = expectedLabel(event[1].data[i].val)
                                 /\ cards'[cardId(q)].width
                                      = ToString(event[1].data[i].val.progress) \o "%"]_vars

\* tiktok-charity failed, and a later message of the same session completed
\* youtube-personal: the channel is still open
C11_Witness ==
    /\ last.op = "message" /\ last.calls = <<"youtube-personal">>
    /\ Len(sessions) = 1 /\ sessions[1].pc = "open"
    /\ uploadInProgress
    /\ card("tiktok-charity").statusText = "Failed"
    /\ card("youtube-personal").statusText = "Complete"


\* the session a step belongs to was the running one: its request was pending
\* or its channel open
ofCurrentSession == sessions[last'.session].pc \in {"fetch", "open"}

\* C12: the flag goes from true to false only in a step of the current session
\* that handles a complete message, a channel error or a failed POST; every
\* other step leaves a set flag set (so after a successful POST, without
\* complete and without channel error, it stays set), and a submit that finds
\* the flag set issues no request and starts no session.
C12_ReleasedOnlyByTerminalEvent ==
    [][/\ (uploadInProgress /\ ~uploadInProgress')
            => /\ \/ MessageStep /\ carriesComplete(event[1].data)
                  \/ ErrorStep
                  \/ FailureStep
               /\ ofCurrentSession
       /\ (uploadInProgress /\ last'.op = "response" /\ last'.ok)
            => uploadInProgress'
       /\ (uploadInProgress /\ GestureStep)
            => sessions' = sessions /\ uploadInProgress']_vars

\* the POST succeeded, the channel is open, and a video dropped meanwhile was
\* not submitted
C12_Witness ==
    /\ last.op = "drop" /\ last.files = <<VideoFile>>
    /\ uploadInProgress
    /\ Len(sessions) = 1
    /\ sessions[1].pc = "open" /\ sessions[1].response = "ok"
    /\ sessions[1].requests = 1


\* the session a submit starts: the flag is set and the request is on its way
submitted ==
    /\ uploadInProgress'
    /\ sessions' = Append(sessions,
           [pc |-> "fetch", requests |-> 1, sources |-> 0,
            response |-> "pending", before |-> <<cards>>])

\* C13: a drop or a pick of a file whose type does not start with 'video/', or
\* of no file, issues no request and changes neither the flag nor a card; a
\* drop or a pick of a video is passed to the gate, which starts a session if
\* the flag is clear and ignores it otherwise.  What a gesture does depends on
\* the file and the flag only, not on drop or pick.
C13_AdapterFilter ==
    [][GestureStep =>
         /\ cards' = cards /\ event' = event
         /\ ~VideoGesture => UNCHANGED <<uploadInProgress, sessions>>
         /\ (VideoGesture /\ ~uploadInProgress) => submitted
         /\ (VideoGesture /\ uploadInProgress) => UNCHANGED <<uploadInProgress, sessions>>]_vars

\* an image was picked after a session had ended: nothing was requested
C13_Witness ==
    /\ last.op = "change" /\ last.files = <<ImageFile>>
    /\ ~uploadInProgress
    /\ Len(sessions) = 1 /\ sessions[1].pc = "closed"
    /\ totalRequests(sessions) = 1


\* the arguments updateProgress is called with: a platform with a card or
\* without one, a percentage, a status or none, an error or none
UpdateArguments ==
    [platformId : EmittedIds \cup {UnknownId},
     progress   : ProgressValues,
     status     : Statuses \cup {Undefined},
     error      : {Undefined, Null, "quota exceeded"}]

once(dom, a) == updateProgress(dom, a.platformId, a.progress, a.status, a.error)

\* C14: on the cards of every reachable state and for every argument tuple,
\* updateProgress applied twice with the same arguments leaves the cards (and
\* the outcome of the call) as applying it once does.  The arrival of a
\* message changes no card, so the states without a pending message show
\* every reachable state of the cards.
C14_UpdateIdempotent ==
    event = <<>> =>
        \A a \in UpdateArguments :
            once(once(cards, a).dom, a) = once(cards, a)

\* a card that shows a percentage, which a success update would change
C14_Witness ==
    /\ last.op = "message"
    /\ card("youtube-personal").statusText = "30%"
    /\ card("tiktok-charity").statusText = "Failed"
    /\ once(cards, [platformId |-> "youtube-personal", progress |-> 100,
                    status |-> "success", error |-> Null]).dom # cards


\* C15: the updateProgress calls of a handled message change the cards of the
\* platforms they were called for and nothing else: every other card is as it
\* was, no card appears or disappears, and the flag and the channel are as
\* they were.
C15_UpdateFrame ==
    [][(MessageStep /\ ~carriesComplete(event[1].data))
         => /\ DOMAIN cards' = DOMAIN cards
            /\ \A q \in PlatformIds :
                 occurrences(last'.calls, q) = 0
                   => cards'[cardId(q)] = cards[cardId(q)]
            /\ UNCHANGED <<uploadInProgress, sessions>>]_vars

\* tiktok-charity was updated to Complete by the last message; the card of
\* youtube-personal still shows the 30% of an earlier one
C15_Witness ==
    /\ last.op = "message" /\ last.calls = <<"tiktok-charity">>
    /\ card("tiktok-charity").statusText = "Complete"
    /\ card("youtube-personal").statusText = "30%"
    /\ card("youtube-personal").width = "30%"
    /\ uploadInProgress


\* C16: the order of a session.  A request is issued only in a step that sets
\* the flag, and while it is pending the flag is set and no channel of the
\* session exists; a channel is opened only in the step that handles the
\* successful response of the session's request, so a session whose request
\* failed never has one; and a card changes only in a step that handles a
\* message of a session whose request succeeded, while no request is pending.
C16_SessionOrder ==
    [][/\ totalRequests(sessions') > totalRequests(sessions)
            => ~uploadInProgress /\ uploadInProgress'
       /\ \A s \in DOMAIN sessions' :
            /\ sessions'[s].pc = "fetch"
                 => uploadInProgress' /\ sessions'[s].sources = 0
            /\ sessions'[s].sources > 0 => sessions'[s].response = "ok"
            /\ sessions'[s].pc = "failed" => sessions'[s].sources = 0
       /\ totalSources(sessions') > totalSources(sessions)
            => /\ last'.op = "response" /\ last'.ok
               /\ sessions[last'.session].pc = "fetch"
               /\ sessions[last'.session].requests = 1
       /\ event' # <<>> => sessions'[event'[1].session].response = "ok"
       /\ cards' # cards
            => /\ MessageStep
               /\ sessions[last'.session].response = "ok"
               /\ \A s \in DOMAIN sessions :
                    sessions[s].pc # "fetch"]_vars

\* the first request failed and no card changed; the second succeeded and a
\* message of its channel has been applied
C16_Witness ==
    /\ Len(sessions) = 2
    /\ sessions[1].pc = "failed" /\ sessions[1].sources = 0
    /\ sessions[2].pc = "open" /\ sessions[2].response = "ok"
    /\ last.op = "message" /\ last.session = 2
    /\ cards # initializePlatformCards


\* the card as initializePlatformCards renders it
ready(p) == card(p) = initializePlatformCards[cardId(p)]

\* C17: progress is scoped to the session.  While the request of a session is
\* pending, no platform has received an event of that session, so every card
\* is in the ready state: label Ready, empty bar, no success or error class,
\* error link hidden.
C17_ProgressSessionScoped ==
    \A s \in DOMAIN sessions :
        sessions[s].pc = "fetch" => \A p \in PlatformIds : ready(p)


\* every platform of the registry is marked success or error
allTerminal == \A p \in PlatformIds : terminal(card(p))

\* C18: once every platform has reached success or error, the flag becomes
\* false.  (In the first session the marks on the cards are the verdicts of
\* this session.)
C18_AllTerminalReleasesGate ==
    (Len(sessions) = 1 /\ allTerminal) ~> ~uploadInProgress

\* C18, as the code has it: the verdicts of the platforms do not release the
\* gate.  A message that leaves every platform marked success or error, and
\* carries no complete, leaves the channel open and the flag set; with every
\* platform marked, the flag is cleared only by handling a message with
\* complete = true or a channel error.
C18_AllTerminalKeepsGate ==
    [][/\ (MessageStep /\ ~carriesComplete(event[1].data) /\ allTerminal')
            => uploadInProgress' /\ sessions'[last'.session].pc = "open"
       /\ (allTerminal /\ uploadInProgress /\ ~uploadInProgress')
            => \/ MessageStep /\ carriesComplete(event[1].data)
               \/ ErrorStep]_vars

\* the last verdict has been handled: all six cards are marked, the channel
\* is open and the flag is set
C18_Witness ==
    /\ Len(sessions) = 1 /\ sessions[1].pc = "open"
    /\ last.op = "message"
    /\ allTerminal
    /\ "error" \in card("youtube-personal").classList
    /\ uploadInProgress


\* C19: a card changes only in a step that handles a message without complete
\* on the open channel.  A submit (accepted or dropped), the response or the
\* failure of the POST, the arrival of a message, the handling of a complete
\* message and a channel error leave every card as it was.
C19_CardsChangedOnlyByBatch ==
    [][/\ cards' # cards
            => /\ MessageStep /\ ~carriesComplete(event[1].data)
               /\ sessions[last'.session].pc = "open"
       /\ (\/ GestureStep
           \/ last'.op \in {"response", "rejected", "receive"}
           \/ ErrorStep
           \/ MessageStep /\ carriesComplete(event[1].data))
            => cards' = cards]_vars

\* a complete message was handled while the cards showed progress: they still do
C19_Witness ==
    /\ last.op = "message" /\ last.complete
    /\ ~uploadInProgress
    /\ Len(sessions) = 2 /\ sessions[1].pc = "failed" /\ sessions[2].pc = "closed"
    /\ card("youtube-personal").statusText = "30%"


\* the request of the session is pending or its channel is open
active(s) == sessions[s].pc \in {"fetch", "open"}

\* C20: in every reachable state at most one session is active, it is the
\* latest one, and the flag is set whenever a session is active; a message
\* waiting for its handler belongs to the open channel.  So a step that
\* clears the flag or changes a card is a step of the latest session, never
\* of an earlier, ended one.
C20_OneActiveSession ==
    /\ [](/\ Cardinality({s \in DOMAIN sessions : active(s)}) <= 1
          /\ \A s \in DOMAIN sessions : active(s) => uploadInProgress /\ s = Len(sessions)
          /\ event # <<>> => sessions[event[1].session].pc = "open")
    /\ [][(uploadInProgress /\ ~uploadInProgress') \/ cards' # cards
            => /\ last'.session = Len(sessions)
               /\ active(last'.session)
               /\ \A s \in DOMAIN sessions :
                    s # last'.session => sessions'[s] = sessions[s] /\ ~active(s)]_vars

\* the first session has ended; a message of the second is handled while its
\* channel is the only open one
C20_Witness ==
    /\ Len(sessions) = 2
    /\ sessions[1].pc = "closed" /\ sessions[1].sources = 1
    /\ sessions[2].pc = "open"
    /\ last.op = "message" /\ last.session = 2
    /\ uploadInProgress


\* the key names no card: it is no platform id of the registry
cardless(key) == key \notin PlatformIds

\* the position of the first key of the message without a card (0 if none)
firstCardless(data) ==
    IF \E i \in DOMAIN data : cardless(data[i].key)
    THEN CHOOSE i \in DOMAIN data :
             /\ cardless(data[i].key)
             /\ \A j \in 1..(i - 1) : ~cardless(data[j].key)
    ELSE 0

\* C21: a handled message without a true complete that has a key without a
\* card (an id outside the registry, or complete = false) is processed up to
\* that key: the handler ends by an exception, the pairs before the key are
\* applied, in order, the cards of the pairs after it are as they were, and
\* the session goes on: the channel is open and the flag is set.
C21_CardlessKeyAbortsBatch ==
    [][(/\ MessageStep
        /\ ~carriesComplete(event[1].data)
        /\ firstCardless(event[1].data) > 0)
         => LET data == event[1].data
                k == firstCardless(data)
            IN  /\ last'.threw
                /\ last'.calls = [i \in 1..(k - 1) |-> data[i].key]
                /\ \A i \in 1..(k - 1) :
                     /\ cards'[cardId(data[i].key)].statusText = expectedLabel(data[i].val)
                     /\ cards'[cardId(data[i].key)].width
                          = ToString(data[i].val.progress) \o "%"
                /\ \A i \in (k + 1)..Len(data) :
                     ~cardless(data[i].key)
                       => cards'[cardId(data[i].key)] = cards[cardId(data[i].key)]
                /\ DOMAIN cards' = DOMAIN cards
                /\ sessions' = sessions
                /\ sessions'[last'.session].pc = "open"
                /\ uploadInProgress /\ uploadInProgress']_vars

\* a message {tiktok-charity: ..., facebook-personal: ...} was handled: the
\* pair of tiktok-charity is applied, the handler threw, the session goes on
C21_Witness ==
    /\ last.op = "message" /\ last.threw
    /\ last.calls = <<"tiktok-charity">>
    /\ card("tiktok-charity").statusText = "Complete"
    /\ card("youtube-personal").statusText = "Ready"
    /\ Len(sessions) = 1 /\ sessions[1].pc = "open"
    /\ uploadInProgress

====
